---- MODULE Spec2Model ----
(***************************************************************************)
(* Offline-caching service worker of the wedding invitation site           *)
(* (src/unnamed/part_000).  The worker is a set of event listeners; every  *)
(* promise continuation of a listener is one action, so that the           *)
(* continuations of concurrent events interleave as they do on the event   *)
(* loop.  Cache storage is the ordered list of buckets of the Cache API    *)
(* (caches.keys() and caches.match() go through it in creation order).     *)
(***************************************************************************)
EXTENDS Naturals, Sequences, FiniteSets, TLC

----------------------------------------------------------------------------
(* Bounds of the model *)

\* number of fetch events the page dispatches
MaxFetches == 2

\* number of manifest fetches that may fail during one cache.addAll
MaxInstallFailures == 1

\* number of message events the pages post, and number of fetch events
\* dispatched in the behaviours with messages and in those with fairness
MaxMessages == 1
MaxMsgFetches == 1

----------------------------------------------------------------------------
(* Constants of the program and of its environment *)

CACHE_NAME == "wedding-invitation-v1.0.0"

\* CACHE_NAME of the deployment this worker supersedes, and a bucket of
\* the same origin that no version of the worker owns
OldVersion == "wedding-invitation-v0.9.0"
ForeignBucket == "fonts"

\* self.location.origin, and the hosts of the two absolute manifest URLs
SelfHost == "self.location.origin"
MapsHost == "maps.app.goo.gl"
PinHost == "i.pinimg.com"

U(h, p) == [host |-> h, path |-> p]

urlsToCache ==
    << U(SelfHost, "/"),
       U(SelfHost, "/index.html"),
       U(SelfHost, "/css/styles.css"),
       U(SelfHost, "/js/script.js"),
       U(SelfHost, "/assets/background.png"),
       U(SelfHost, "/assets/wedding-music.mp3"),
       U(SelfHost, "/assets/invitation-card.pdf"),
       U(SelfHost, "/manifest.json"),
       U(PinHost, "/originals/f6/27/91/f62791c3d0e3e2c3a0b3e0e3e3d8e3c3.png"),
       U(MapsHost, "/ctKUnnbbKhS6xQcz7") >>

IndexHtml == U(SelfHost, "/index.html")
MapsLink == urlsToCache[10]
AboutHtml == U(SelfHost, "/about.html")
NoUrl == U("", "")

\* event.request.url.includes('maps.app.goo.gl')
UrlIncludesMaps(url) == url.host = MapsHost

\* event.request.url.startsWith(self.location.origin)
UrlStartsWithOrigin(url) == url.host = SelfHost

\* event.request.headers.get('accept').includes('text/html')
AcceptIncludesHtml(req) == "text/html" \in req.accept

----------------------------------------------------------------------------
(* Requests and responses *)

Req(url, method, mode, accept) ==
    [url |-> url, method |-> method, mode |-> mode, accept |-> accept]

HtmlAccept == {"text/html", "application/xhtml+xml"}
ImageAccept == {"image/png", "image/*"}

\* the requests the page issues while a worker controls it
PageRequests ==
    { Req(AboutHtml, "GET", "navigate", HtmlAccept),
      Req(AboutHtml, "POST", "navigate", HtmlAccept),
      Req(U(MapsHost, "/ctKUnnbbKhS6xQcz7"), "GET", "navigate", HtmlAccept),
      Req(urlsToCache[9], "GET", "no-cors", ImageAccept) }

\* gen tells the snapshots of one URL apart: 0 for a response that no
\* fetch event of the model fetched, t for the network response of event t
Resp(status, type, url, gen) ==
    [status |-> status, type |-> type, url |-> url, gen |-> gen]

NoResp == Resp(0, "none", NoUrl, 0)

\* what fetch(request) can settle with: a rejection (NoResp) or a response
\* whose type follows from the origin and the request mode
NetworkResponses(req, gen) ==
    IF req.url.host = SelfHost
    THEN {Resp(200, "basic", req.url, gen), Resp(404, "basic", req.url, gen)}
    ELSE IF req.mode = "no-cors"
         THEN {Resp(0, "opaque", req.url, gen)}
         ELSE {Resp(200, "cors", req.url, gen)}

----------------------------------------------------------------------------
(* Cache storage: a sequence of buckets in creation order *)

\* methods gives, for every key, the method of the request it was stored
\* under; what a bucket holds at the start was stored by the same code paths
Bucket(name, id, entries) ==
    [name |-> name, id |-> id, entries |-> entries,
     methods |-> [k \in DOMAIN entries |-> "GET"]]

Names(cs) == {cs[i].name : i \in DOMAIN cs}

HasBucket(cs, name) == name \in Names(cs)

IndexOf(cs, name) == CHOOSE i \in DOMAIN cs : cs[i].name = name

\* caches.open(name): the bucket is created, last in order, when absent
CachesOpen(cs, name, id) ==
    IF HasBucket(cs, name) THEN cs
    ELSE Append(cs, Bucket(name, id, << >>))

OpenedId(cs, name, id) ==
    IF HasBucket(cs, name) THEN cs[IndexOf(cs, name)].id ELSE id

\* caches.delete(name)
CachesDelete(cs, name) == SelectSeq(cs, LAMBDA b : b.name # name)

\* an entry of one bucket; keys are request URLs
EntryPut(entries, url, resp) ==
    [k \in (DOMAIN entries) \cup {url} |-> IF k = url THEN resp ELSE entries[k]]

\* cache.put / the batch of cache.addAll on the Cache object with this id;
\* a Cache object whose bucket was deleted is detached from storage.
\* cache.addAll builds its requests from URLs, so their method is GET
CachePutAll(cs, id, resps) ==
    [i \in DOMAIN cs |->
        IF cs[i].id = id
        THEN [cs[i] EXCEPT
                !.entries =
                    [k \in (DOMAIN cs[i].entries) \cup {r.url : r \in resps} |->
                        IF \E r \in resps : r.url = k
                        THEN CHOOSE r \in resps : r.url = k
                        ELSE cs[i].entries[k]],
                !.methods =
                    [k \in (DOMAIN cs[i].entries) \cup {r.url : r \in resps} |->
                        IF \E r \in resps : r.url = k
                        THEN "GET"
                        ELSE cs[i].methods[k]]]
        ELSE cs[i]]

\* cache.put(request, response): the key is the request as it was received.
\* The Cache API itself refuses a request that is not a GET; the model
\* does not lean on that, so that what keeps other methods out of storage
\* is the code of the listeners
CachePut(cs, id, req, resp) ==
    [i \in DOMAIN cs |->
        IF cs[i].id = id
        THEN [cs[i] EXCEPT
                !.entries = EntryPut(cs[i].entries, req.url, resp),
                !.methods = EntryPut(cs[i].methods, req.url, req.method)]
        ELSE cs[i]]

\* caches.match(url): the first bucket in creation order that holds the key
CachesMatch(cs, url) ==
    LET hits == {i \in DOMAIN cs : url \in DOMAIN cs[i].entries}
    IN  IF hits = {} THEN NoResp
        ELSE cs[CHOOSE i \in hits : \A j \in hits : i <= j].entries[url]

----------------------------------------------------------------------------
(* State *)

VARIABLES
    caches,            \* cache storage of the origin
    nextId,            \* identity of the next Cache object storage creates
    phase,             \* lifecycle state of the worker for CACHE_NAME
    skipWaitingFlag,   \* set by self.skipWaiting()
    inst,              \* the promise chain of the install listener
    act,               \* the promises of the activate listener
    controller,        \* version of the worker that controls the page
    tasks,             \* the fetch events, one record each
    createdSinceKeys,  \* buckets created after activation's caches.keys()
    msgs               \* the message events, one record each

vars == << caches, nextId, phase, skipWaitingFlag, inst, act, controller,
           tasks, createdSinceKeys, msgs >>

Result(kind, resp) == [kind |-> kind, resp |-> resp]

IdleTask ==
    [pc |-> "idle", ver |-> "none", req |-> Req(NoUrl, "GET", "none", {}),
     result |-> Result("pending", NoResp), net |-> NoResp,
     lookups |-> 0, netCalls |-> 0, wr |-> "none", cacheId |-> 0,
     after |-> {}]

\* event.data of a message event, and whether event.ports[0] is a port;
\* NullData is a message without data
Data(type, urls, port) == [type |-> type, urls |-> urls, port |-> port]

NullData == Data("null", << >>, FALSE)

IdleMsg ==
    [pc |-> "idle", data |-> NullData, replies |-> << >>,
     promise |-> "none", cacheId |-> 0]

StaleEntries == EntryPut(<< >>, IndexHtml, Resp(200, "basic", IndexHtml, 0))

\* storage as the new deployment finds it: empty on a first visit, or the
\* bucket of the superseded version beside a foreign bucket
InitialCaches ==
    { << >>,
      << Bucket(ForeignBucket, 1, << >>), Bucket(OldVersion, 2, StaleEntries) >> }

Init ==
    /\ caches \in InitialCaches
    /\ nextId = Len(caches) + 1
    /\ phase = "parsed"
    /\ skipWaitingFlag = FALSE
    /\ inst = [pc |-> "idle", cacheId |-> 0, failed |-> {}, promise |-> "none"]
    /\ act = [pc |-> "idle", names |-> {}, pending |-> {}, failed |-> {},
              all |-> "none", claim |-> "none"]
    /\ controller = IF HasBucket(caches, OldVersion) THEN OldVersion ELSE "none"
    /\ tasks = [t \in 1..MaxFetches |-> IdleTask]
    /\ createdSinceKeys = {}
    /\ msgs = [m \in 1..MaxMessages |-> IdleMsg]

\* bookkeeping of every caches.open: a fresh identity is used up, and a
\* bucket created after the enumeration of activation is remembered
OpenEffects(name) ==
    /\ nextId' = IF HasBucket(caches, name) THEN nextId ELSE nextId + 1
    /\ createdSinceKeys' =
          IF ~HasBucket(caches, name) /\ act.pc = "deleting" /\ phase = "activating"
          THEN createdSinceKeys \cup {name}
          ELSE createdSinceKeys

----------------------------------------------------------------------------
(* install listener *)

\* the chain without its .catch: a rejection reaches event.waitUntil
InstallCatch_Rethrow(outcome) == outcome

\* .catch(error => Promise.resolve()): whatever the chain settled with,
\* the promise handed to event.waitUntil is fulfilled
InstallCatch(outcome) == "fulfilled"

\* the response cache.addAll gets for manifest entry i when its fetch
\* succeeds: the requests are built with mode 'no-cors'
AddAllResponse(i) ==
    IF urlsToCache[i].host = SelfHost
    THEN Resp(200, "basic", urlsToCache[i], 0)
    ELSE Resp(0, "opaque", urlsToCache[i], 0)

\* cache.addAll stores the batch only when every fetch succeeded with an
\* ok status (200..299); otherwise it rejects and stores nothing.  The
\* opaque response of a cross-origin 'no-cors' request has status 0
AddAllAccepts(failed) ==
    /\ failed = {}
    /\ \A i \in DOMAIN urlsToCache :
          AddAllResponse(i).status >= 200 /\ AddAllResponse(i).status <= 299

AddAllStored(failed) ==
    IF AddAllAccepts(failed)
    THEN {AddAllResponse(i) : i \in DOMAIN urlsToCache}
    ELSE {}

\* the listener itself: event.waitUntil(caches.open(...)...) and
\* self.skipWaiting()
Install ==
    /\ phase = "parsed"
    /\ phase' = "installing"
    /\ inst' = [inst EXCEPT !.pc = "open", !.promise = "pending"]
    /\ skipWaitingFlag' = TRUE
    /\ UNCHANGED << caches, nextId, act, controller, tasks,
                    createdSinceKeys, msgs >>

\* caches.open(CACHE_NAME) settles
InstallOpen ==
    /\ inst.pc = "open"
    /\ \E ok \in BOOLEAN :
          IF ok
          THEN /\ caches' = CachesOpen(caches, CACHE_NAME, nextId)
               /\ OpenEffects(CACHE_NAME)
               /\ inst' = [inst EXCEPT !.pc = "addAll",
                              !.cacheId = OpenedId(caches, CACHE_NAME, nextId)]
          ELSE /\ inst' = [inst EXCEPT !.pc = "done",
                              !.promise = InstallCatch("rejected")]
               /\ UNCHANGED << caches, nextId, createdSinceKeys >>
    /\ UNCHANGED << phase, skipWaitingFlag, act, controller, tasks, msgs >>

\* the fetches of cache.addAll settle; failed holds the manifest entries
\* whose fetch failed
InstallFetchAll ==
    /\ inst.pc = "addAll"
    /\ \E failed \in SUBSET (DOMAIN urlsToCache) :
          /\ Cardinality(failed) <= MaxInstallFailures
          /\ inst' = [inst EXCEPT !.pc = "fetched", !.failed = failed]
    /\ UNCHANGED << caches, nextId, phase, skipWaitingFlag, act, controller,
                    tasks, createdSinceKeys, msgs >>

\* cache.addAll settles, then the .catch of the chain
InstallAddAll ==
    /\ inst.pc = "fetched"
    /\ caches' = CachePutAll(caches, inst.cacheId, AddAllStored(inst.failed))
    /\ inst' = [inst EXCEPT !.pc = "done", !.failed = {},
                   !.promise = IF AddAllAccepts(inst.failed)
                               THEN "fulfilled"
                               ELSE InstallCatch("rejected")]
    /\ UNCHANGED << nextId, phase, skipWaitingFlag, act, controller, tasks,
                    createdSinceKeys, msgs >>

\* the host, once the promise of event.waitUntil has settled
InstallFinish ==
    /\ phase = "installing"
    /\ inst.promise \in {"fulfilled", "rejected"}
    /\ phase' = IF inst.promise = "fulfilled" THEN "installed" ELSE "redundant"
    /\ UNCHANGED << caches, nextId, skipWaitingFlag, inst, act, controller,
                    tasks, createdSinceKeys, msgs >>

----------------------------------------------------------------------------
(* activate listener *)

\* the comparison with CACHE_NAME left out: every bucket is deleted
NamesToDelete_All(names) == names

\* cacheNames.map(...): a caches.delete is issued for every enumerated
\* name but CACHE_NAME
NamesToDelete(names) == {n \in names : n # CACHE_NAME}

\* Promise.all over the deletions: rejected by the first rejection,
\* fulfilled once none is pending
PromiseAll(all, pending, rejected) ==
    IF all # "pending" THEN all
    ELSE IF rejected THEN "rejected"
    ELSE IF pending = {} THEN "fulfilled"
    ELSE "pending"

\* the host starts activation (the waiting period is skipped, or no page
\* is controlled by an older worker); pages of the older worker switch to
\* this one.  The listener calls caches.keys() and self.clients.claim()
Activate ==
    /\ phase = "installed"
    /\ skipWaitingFlag \/ controller = "none"
    /\ phase' = "activating"
    /\ act' = [act EXCEPT !.pc = "keys", !.all = "pending", !.claim = "pending"]
    /\ controller' = IF controller = OldVersion THEN CACHE_NAME ELSE controller
    /\ UNCHANGED << caches, nextId, skipWaitingFlag, inst, tasks,
                    createdSinceKeys, msgs >>

\* caches.keys() settles and the deletions are issued
ActivateKeys ==
    /\ act.pc = "keys"
    /\ act' = [act EXCEPT !.pc = "deleting",
                  !.names = Names(caches),
                  !.pending = NamesToDelete(Names(caches)),
                  !.all = PromiseAll(act.all, NamesToDelete(Names(caches)), FALSE)]
    /\ createdSinceKeys' = {}
    /\ UNCHANGED << caches, nextId, phase, skipWaitingFlag, inst, controller,
                    tasks, msgs >>

\* one caches.delete(cacheName) settles
ActivateDelete(n) ==
    /\ act.pc = "deleting"
    /\ n \in act.pending
    /\ \E ok \in BOOLEAN :
          /\ caches' = IF ok THEN CachesDelete(caches, n) ELSE caches
          /\ act' = [act EXCEPT
                        !.pending = act.pending \ {n},
                        !.failed = IF ok THEN act.failed ELSE act.failed \cup {n},
                        !.all = PromiseAll(act.all, act.pending \ {n}, ~ok)]
    /\ UNCHANGED << nextId, phase, skipWaitingFlag, inst, controller, tasks,
                    createdSinceKeys, msgs >>

\* event.waitUntil(self.clients.claim()) is a statement of the listener
\* itself, not a continuation of the deletions: the call is made whatever
\* the state of their Promise.all
ClaimStarts_AfterPrune(all) == all = "fulfilled"

ClaimStarts(all) == TRUE

\* self.clients.claim() settles: the open pages are controlled by this
\* worker
ClientsClaim ==
    /\ act.claim = "pending"
    /\ ClaimStarts(act.all)
    /\ act' = [act EXCEPT !.claim = "fulfilled"]
    /\ controller' = CACHE_NAME
    /\ UNCHANGED << caches, nextId, phase, skipWaitingFlag, inst, tasks,
                    createdSinceKeys, msgs >>

\* the host, once both promises of event.waitUntil have settled
ActivateFinish ==
    /\ phase = "activating"
    /\ act.all \in {"fulfilled", "rejected"}
    /\ act.claim = "fulfilled"
    /\ phase' = "activated"
    /\ UNCHANGED << caches, nextId, skipWaitingFlag, inst, act, controller,
                    tasks, createdSinceKeys, msgs >>

----------------------------------------------------------------------------
(* fetch listener *)

\* the status check left out
ValidResponse_AnyStatus(resp) == resp # NoResp /\ resp.type = "basic"

\* if (!response || response.status !== 200 || response.type !== 'basic')
ValidResponse(resp) == resp # NoResp /\ resp.status = 200 /\ resp.type = "basic"

\* the method check left out
PassesThrough_MapsOnly(req) == UrlIncludesMaps(req.url)

\* the listener returns without event.respondWith
PassesThrough(req) == req.method # "GET" \/ UrlIncludesMaps(req.url)

\* the lazy write left out
WritesLazily_Never(req, resp) == FALSE

\* whether the validated response is handed to caches.open(...).then(put)
WritesLazily(req, resp) == ValidResponse(resp) /\ UrlStartsWithOrigin(req.url)

\* the Accept check left out: every failed fetch gets the fallback
CatchGoesToFallback_Always(req) == TRUE

\* the .catch of the network fetch: the fallback lookup for HTML requests,
\* the error thrown again for the others
CatchGoesToFallback(req) == AcceptIncludesHtml(req)

\* network first: the lookup result is ignored
HitLookup_Miss(cs, req) == NoResp

\* the cache that answers a hit: caches.match over the whole storage
HitLookup(cs, req) == CachesMatch(cs, req.url)

\* the fallback looked up under '/' instead of '/index.html'
FallbackLookup_Root(cs) == CachesMatch(cs, urlsToCache[1])

\* the fallback document of the .catch
FallbackLookup(cs) == CachesMatch(cs, IndexHtml)

\* the events whose response the page already has
Returned == {u \in 1..MaxFetches : tasks[u].pc = "done"}

\* the page dispatches a fetch event to the worker that controls it; a
\* worker still activating gets its events once activated.  The superseded
\* worker runs the same listener with OldVersion as its CACHE_NAME, and a
\* worker of this version installed earlier runs it until the new instance
\* activates
FetchEvent(t, req) ==
    /\ tasks[t].pc = "idle"
    /\ \A u \in 1..(t - 1) : tasks[u].pc # "idle"
    /\ controller = OldVersion \/ (controller = CACHE_NAME /\ phase # "activating")
    /\ tasks' = [tasks EXCEPT ![t] =
          IF PassesThrough(req)
          THEN [@ EXCEPT !.pc = "done", !.ver = controller, !.req = req,
                         !.after = Returned,
                         !.result = Result("passthrough", NoResp)]
          ELSE [@ EXCEPT !.pc = "match", !.ver = controller, !.req = req,
                         !.after = Returned]]
    /\ UNCHANGED << caches, nextId, phase, skipWaitingFlag, inst, act,
                    controller, createdSinceKeys, msgs >>

\* caches.match(event.request) settles
FetchMatch(t) ==
    /\ tasks[t].pc = "match"
    /\ LET hit == HitLookup(caches, tasks[t].req)
       IN  tasks' = [tasks EXCEPT ![t] =
              IF hit # NoResp
              THEN [@ EXCEPT !.pc = "done", !.lookups = @ + 1,
                             !.result = Result("response", hit)]
              ELSE [@ EXCEPT !.pc = "fetch", !.lookups = @ + 1]]
    /\ UNCHANGED << caches, nextId, phase, skipWaitingFlag, inst, act,
                    controller, createdSinceKeys, msgs >>

\* fetch(fetchRequest) is fulfilled with a response
FetchResponse(t) ==
    /\ tasks[t].pc = "fetch"
    /\ \E resp \in NetworkResponses(tasks[t].req, t) :
          tasks' = [tasks EXCEPT ![t] =
              [@ EXCEPT !.pc = "done", !.netCalls = @ + 1, !.net = resp,
                        !.result = Result("response", resp),
                        !.wr = IF WritesLazily(tasks[t].req, resp)
                               THEN "open" ELSE "none"]]
    /\ UNCHANGED << caches, nextId, phase, skipWaitingFlag, inst, act,
                    controller, createdSinceKeys, msgs >>

\* fetch(fetchRequest) is rejected
FetchError(t) ==
    /\ tasks[t].pc = "fetch"
    /\ tasks' = [tasks EXCEPT ![t] =
          IF CatchGoesToFallback(tasks[t].req)
          THEN [@ EXCEPT !.pc = "fallback", !.netCalls = @ + 1]
          ELSE [@ EXCEPT !.pc = "done", !.netCalls = @ + 1,
                         !.result = Result("error", NoResp)]]
    /\ UNCHANGED << caches, nextId, phase, skipWaitingFlag, inst, act,
                    controller, createdSinceKeys, msgs >>

\* caches.match('/index.html') of the .catch settles; when nothing
\* matches, respondWith is given undefined
FetchFallback(t) ==
    /\ tasks[t].pc = "fallback"
    /\ LET hit == FallbackLookup(caches)
       IN  tasks' = [tasks EXCEPT ![t] =
              [@ EXCEPT !.pc = "done", !.lookups = @ + 1,
                        !.result = IF hit # NoResp
                                   THEN Result("response", hit)
                                   ELSE Result("undefined", NoResp)]]
    /\ UNCHANGED << caches, nextId, phase, skipWaitingFlag, inst, act,
                    controller, createdSinceKeys, msgs >>

\* caches.open(CACHE_NAME) of the lazy write settles; the name is the
\* CACHE_NAME of the worker that handles the event
LazyOpen(t) ==
    /\ tasks[t].wr = "open"
    /\ \E ok \in BOOLEAN :
          IF ok
          THEN /\ caches' = CachesOpen(caches, tasks[t].ver, nextId)
               /\ OpenEffects(tasks[t].ver)
               /\ tasks' = [tasks EXCEPT ![t] =
                     [@ EXCEPT !.wr = "put",
                               !.cacheId = OpenedId(caches, tasks[t].ver, nextId)]]
          ELSE /\ tasks' = [tasks EXCEPT ![t] = [@ EXCEPT !.wr = "failed"]]
               /\ UNCHANGED << caches, nextId, createdSinceKeys >>
    /\ UNCHANGED << phase, skipWaitingFlag, inst, act, controller, msgs >>

\* cache.put(event.request, responseToCache) settles
LazyPut(t) ==
    /\ tasks[t].wr = "put"
    /\ \E ok \in BOOLEAN :
          /\ caches' = IF ok
                       THEN CachePut(caches, tasks[t].cacheId,
                                     tasks[t].req, tasks[t].net)
                       ELSE caches
          /\ tasks' = [tasks EXCEPT ![t] =
                [@ EXCEPT !.wr = IF ok THEN "written" ELSE "failed"]]
    /\ UNCHANGED << nextId, phase, skipWaitingFlag, inst, act, controller,
                    createdSinceKeys, msgs >>

----------------------------------------------------------------------------
(* message listener *)

\* what the pages post to the worker
MessageData ==
    { NullData,
      Data("SKIP_WAITING", << >>, TRUE),
      Data("GET_VERSION", << >>, TRUE),
      Data("PING", << >>, TRUE),
      Data("CACHE_URLS", << IndexHtml, MapsLink >>, TRUE) }

\* event.data && event.data.type === type
IsType(data, type) == data # NullData /\ data.type = type

\* event.ports[0].postMessage({ version: CACHE_NAME }): what the listener
\* sends on the port of the message
Replies_Always(data) == << [version |-> CACHE_NAME] >>

Replies(data) ==
    IF IsType(data, "GET_VERSION") /\ data.port
    THEN << [version |-> CACHE_NAME] >>
    ELSE << >>

\* the response cache.addAll(event.data.urls) gets for a URL whose fetch
\* succeeds with an ok status: the requests are built from the strings,
\* with the default mode 'cors'
MessageResponse(url) ==
    IF url.host = SelfHost
    THEN Resp(200, "basic", url, 0)
    ELSE Resp(200, "cors", url, 0)

\* every URL whose own fetch succeeded is stored
MessageStored_PerItem(urls, failed) ==
    {MessageResponse(urls[i]) : i \in (DOMAIN urls) \ failed}

\* cache.addAll is all-or-nothing; failed holds the positions of the list
\* whose fetch failed or came back with a status that is not ok
MessageStored(urls, failed) ==
    IF failed = {}
    THEN {MessageResponse(urls[i]) : i \in DOMAIN urls}
    ELSE {}

\* the listener itself; a page posts to the active worker
MessageEvent(m, data) ==
    /\ msgs[m].pc = "idle"
    /\ \A u \in 1..(m - 1) : msgs[u].pc # "idle"
    /\ phase = "activated"
    /\ msgs' = [msgs EXCEPT ![m] =
          [pc |-> IF IsType(data, "CACHE_URLS") THEN "open" ELSE "done",
           data |-> data,
           replies |-> Replies(data),
           promise |-> IF IsType(data, "CACHE_URLS") THEN "pending" ELSE "none",
           cacheId |-> 0]]
    /\ skipWaitingFlag' = (skipWaitingFlag \/ IsType(data, "SKIP_WAITING"))
    /\ UNCHANGED << caches, nextId, phase, inst, act, controller, tasks,
                    createdSinceKeys >>

\* caches.open(CACHE_NAME) of a CACHE_URLS message settles; the chain has
\* no .catch, so its rejection is the rejection of the promise given to
\* event.waitUntil
MessageOpen(m) ==
    /\ msgs[m].pc = "open"
    /\ \E ok \in BOOLEAN :
          IF ok
          THEN /\ caches' = CachesOpen(caches, CACHE_NAME, nextId)
               /\ OpenEffects(CACHE_NAME)
               /\ msgs' = [msgs EXCEPT ![m] =
                     [@ EXCEPT !.pc = "addAll",
                               !.cacheId = OpenedId(caches, CACHE_NAME, nextId)]]
          ELSE /\ msgs' = [msgs EXCEPT ![m] =
                     [@ EXCEPT !.pc = "done", !.promise = "rejected"]]
               /\ UNCHANGED << caches, nextId, createdSinceKeys >>
    /\ UNCHANGED << phase, skipWaitingFlag, inst, act, controller, tasks >>

\* cache.addAll(event.data.urls) settles
MessageAddAll(m) ==
    /\ msgs[m].pc = "addAll"
    /\ \E failed \in SUBSET (DOMAIN msgs[m].data.urls) :
          /\ caches' = CachePutAll(caches, msgs[m].cacheId,
                                   MessageStored(msgs[m].data.urls, failed))
          /\ msgs' = [msgs EXCEPT ![m] =
                [@ EXCEPT !.pc = "done",
                          !.promise = IF failed = {} THEN "fulfilled"
                                                     ELSE "rejected"]]
    /\ UNCHANGED << nextId, phase, skipWaitingFlag, inst, act, controller,
                    tasks, createdSinceKeys >>

----------------------------------------------------------------------------
(* The worker and its host *)

Next ==
    \/ Install
    \/ InstallOpen
    \/ InstallFetchAll
    \/ InstallAddAll
    \/ InstallFinish
    \/ Activate
    \/ ActivateKeys
    \/ \E n \in act.pending : ActivateDelete(n)
    \/ ClientsClaim
    \/ ActivateFinish
    \/ \E t \in 1..MaxFetches : \E req \in PageRequests : FetchEvent(t, req)
    \/ \E t \in 1..MaxFetches : FetchMatch(t)
    \/ \E t \in 1..MaxFetches : FetchResponse(t)
    \/ \E t \in 1..MaxFetches : FetchError(t)
    \/ \E t \in 1..MaxFetches : FetchFallback(t)
    \/ \E t \in 1..MaxFetches : LazyOpen(t)
    \/ \E t \in 1..MaxFetches : LazyPut(t)

Spec == Init /\ [][Next]_vars

\* the same worker while pages also post messages to it
NextMsg ==
    \/ Install
    \/ InstallOpen
    \/ InstallFetchAll
    \/ InstallAddAll
    \/ InstallFinish
    \/ Activate
    \/ ActivateKeys
    \/ \E n \in act.pending : ActivateDelete(n)
    \/ ClientsClaim
    \/ ActivateFinish
    \/ \E t \in 1..MaxMsgFetches : \E req \in PageRequests : FetchEvent(t, req)
    \/ \E t \in 1..MaxMsgFetches : FetchMatch(t)
    \/ \E t \in 1..MaxMsgFetches : FetchResponse(t)
    \/ \E t \in 1..MaxMsgFetches : FetchError(t)
    \/ \E t \in 1..MaxMsgFetches : FetchFallback(t)
    \/ \E t \in 1..MaxMsgFetches : LazyOpen(t)
    \/ \E t \in 1..MaxMsgFetches : LazyPut(t)
    \/ \E m \in 1..MaxMessages : \E data \in MessageData : MessageEvent(m, data)
    \/ \E m \in 1..MaxMessages : MessageOpen(m)
    \/ \E m \in 1..MaxMessages : MessageAddAll(m)

SpecMsg == Init /\ [][NextMsg]_vars

\* storage as a second installation of the same version finds it: the
\* bucket CACHE_NAME as the first installation and the fetch listener
\* left it, beside a bucket another script of the origin created since
ReinstallCaches ==
    { << Bucket(ForeignBucket, 1, << >>), Bucket(CACHE_NAME, 2, << >>) >>,
      << Bucket(ForeignBucket, 1, << >>),
         Bucket(CACHE_NAME, 2,
                EntryPut(<< >>, AboutHtml, Resp(200, "basic", AboutHtml, 0))) >> }

InitReinstall ==
    /\ caches \in ReinstallCaches
    /\ nextId = Len(caches) + 1
    /\ phase = "parsed"
    /\ skipWaitingFlag = FALSE
    /\ inst = [pc |-> "idle", cacheId |-> 0, failed |-> {}, promise |-> "none"]
    /\ act = [pc |-> "idle", names |-> {}, pending |-> {}, failed |-> {},
              all |-> "none", claim |-> "none"]
    /\ controller = CACHE_NAME
    /\ tasks = [t \in 1..MaxFetches |-> IdleTask]
    /\ createdSinceKeys = {}
    /\ msgs = [m \in 1..MaxMessages |-> IdleMsg]

SpecReinstall == InitReinstall /\ [][Next]_vars

----------------------------------------------------------------------------
(* Properties *)

Tasks == 1..MaxFetches

\* the step in which the host ends activation: both waitUntil promises of
\* the activate listener have settled
ActivationCompletes == phase = "activating" /\ phase' = "activated"

\* C1 as stated: when the activate handler of the worker for CACHE_NAME has
\* completed, cache storage holds the bucket CACHE_NAME and no other bucket.
C1_OnlyCurrentBucket ==
    [][ActivationCompletes => Names(caches') = {CACHE_NAME}]_vars

\* C1 amended: when the activate handler has completed, the bucket
\* CACHE_NAME is in storage if it was there when the handler enumerated the
\* buckets, and every other bucket in storage is one whose deletion failed,
\* whose deletion is still pending (Promise.all settled on an earlier
\* rejection) or that was created after the enumeration.
C1_PrunesWhatItCan ==
    [][ActivationCompletes =>
         /\ CACHE_NAME \in act.names => HasBucket(caches', CACHE_NAME)
         /\ \A n \in Names(caches') \ {CACHE_NAME} :
               n \in act.failed \cup act.pending \cup createdSinceKeys]_vars

\* install then activate over the buckets of an older deployment: only the
\* current bucket is left
C1_Witness ==
    /\ phase = "activated"
    /\ act.names = {ForeignBucket, OldVersion, CACHE_NAME}
    /\ act.failed = {}
    /\ Names(caches) = {CACHE_NAME}

\* C2: a fetch event whose request method is not GET is passed through
\* without respondWith: the handler does no cache lookup, no network call and
\* no cache write for it, and dispatching it leaves cache storage unchanged.
C2_NonGetUntouched ==
    /\ [](\A t \in Tasks :
            tasks[t].pc # "idle" /\ tasks[t].req.method # "GET" =>
               /\ tasks[t].pc = "done"
               /\ tasks[t].result = Result("passthrough", NoResp)
               /\ tasks[t].lookups = 0
               /\ tasks[t].netCalls = 0
               /\ tasks[t].wr = "none")
    /\ [][\A t \in Tasks :
            tasks[t].pc = "idle" /\ tasks'[t].pc # "idle"
               /\ tasks'[t].req.method # "GET" => caches' = caches]_vars

C2_Witness ==
    \E t \in Tasks : tasks[t].pc = "done" /\ tasks[t].req.method = "POST"

\* whether the bucket with this name holds an entry for the URL
Stored(cs, name, url) ==
    \E i \in DOMAIN cs : cs[i].name = name /\ url \in DOMAIN cs[i].entries

\* the responses storage holds for the URL, over all buckets
StoredResponses(cs, url) ==
    {cs[i].entries[url] : i \in {j \in DOMAIN cs : url \in DOMAIN cs[j].entries}}

\* C3 as stated: once the worker for CACHE_NAME has answered a GET that missed
\* the cache from the network with a same-origin status-200 "basic" response,
\* an identical request dispatched after that answer is served from the cache
\* with no network call.
C3_RoundTrip ==
    \A t1 \in Tasks : \A t2 \in Tasks :
        /\ t1 \in tasks[t2].after
        /\ tasks[t1].ver = CACHE_NAME /\ tasks[t2].ver = CACHE_NAME
        /\ tasks[t2].req = tasks[t1].req
        /\ tasks[t1].netCalls = 1
        /\ ValidResponse(tasks[t1].net)
        /\ UrlStartsWithOrigin(tasks[t1].req.url)
        => /\ tasks[t2].netCalls = 0
           /\ tasks[t2].pc = "done" => tasks[t2].result.kind = "response"

\* C4: a GET whose lookup finds an entry is answered with the stored
\* response, whatever its age; no network request and no cache write is
\* issued for the event, then or later.
C4_HitServedFromCache ==
    [][\A t \in Tasks :
         /\ tasks[t].pc = "match" /\ tasks'[t].pc # "match"
               /\ CachesMatch(caches, tasks[t].req.url) # NoResp
            => /\ tasks'[t].pc = "done"
               /\ tasks'[t].result =
                     Result("response", CachesMatch(caches, tasks[t].req.url))
               /\ tasks'[t].netCalls = 0
               /\ tasks'[t].wr = "none"
         /\ tasks[t].pc = "done"
            => /\ tasks'[t].netCalls = tasks[t].netCalls
               /\ tasks'[t].result = tasks[t].result]_vars

\* a hit on an entry that an earlier event stored
C4_Witness ==
    \E t \in Tasks :
        /\ tasks[t].pc = "done"
        /\ tasks[t].lookups = 1
        /\ tasks[t].netCalls = 0
        /\ tasks[t].result.kind = "response"
        /\ tasks[t].result.resp.gen # t

\* C5: on a miss, a network response whose status is not 200 or whose type
\* is not "basic" is returned as it is and is not written; every response
\* the miss path writes, and every lazily written entry of any bucket, is a
\* status-200 "basic" response to a same-origin request, stored under the
\* URL of that request.
C5_OnlyValidResponsesWritten ==
    /\ \A t \in Tasks :
          /\ tasks[t].net # NoResp
                /\ ~(tasks[t].net.status = 200 /\ tasks[t].net.type = "basic")
             => /\ tasks[t].result = Result("response", tasks[t].net)
                /\ tasks[t].wr = "none"
          /\ tasks[t].wr # "none"
             => /\ tasks[t].net.status = 200
                /\ tasks[t].net.type = "basic"
                /\ tasks[t].req.url.host = SelfHost
                /\ tasks[t].result = Result("response", tasks[t].net)
    /\ \A i \in DOMAIN caches : \A k \in DOMAIN caches[i].entries :
          caches[i].entries[k].gen # 0
             => /\ caches[i].entries[k].status = 200
                /\ caches[i].entries[k].type = "basic"
                /\ caches[i].entries[k].url = k
                /\ k.host = SelfHost

\* a 404 and an opaque response have been returned, and a valid one written
C5_Witness ==
    \E t1 \in Tasks : \E t2 \in Tasks :
        /\ tasks[t1].pc = "done" /\ tasks[t1].net.status = 404
        /\ tasks[t2].pc = "done" /\ tasks[t2].net.type = "opaque"

\* C6: when a GET misses, the network fetch fails and the Accept header
\* includes text/html, the handler looks up the fallback, and with
\* /index.html in cache storage it responds with that stored document.
C6_HtmlFallback ==
    [][\A t \in Tasks :
         /\ tasks[t].pc = "fetch" /\ tasks'[t].pc # "fetch"
               /\ tasks'[t].net = NoResp /\ AcceptIncludesHtml(tasks[t].req)
            => tasks'[t].pc = "fallback"
         /\ tasks[t].pc = "fallback" /\ tasks'[t].pc # "fallback"
               /\ StoredResponses(caches, IndexHtml) # {}
            => /\ tasks'[t].pc = "done"
               /\ tasks'[t].result.kind = "response"
               /\ tasks'[t].result.resp \in StoredResponses(caches, IndexHtml)]_vars

\* /about.html is not cached, the network is down, /index.html is served
C6_Witness ==
    \E t \in Tasks :
        /\ tasks[t].pc = "done"
        /\ tasks[t].req.url = AboutHtml
        /\ tasks[t].netCalls = 1
        /\ tasks[t].net = NoResp
        /\ tasks[t].result.kind = "response"
        /\ tasks[t].result.resp.url = IndexHtml

\* C7: when a GET misses, the network fetch fails and the request is not for
\* an HTML document, the failure is what the caller gets: no fallback is
\* looked up and no response is substituted.
C7_NonHtmlFailurePropagates ==
    \A t \in Tasks :
        /\ tasks[t].netCalls = 1
        /\ tasks[t].net = NoResp
        /\ ~AcceptIncludesHtml(tasks[t].req)
        => /\ tasks[t].pc = "done"
           /\ tasks[t].result = Result("error", NoResp)
           /\ tasks[t].lookups = 1

C7_Witness ==
    \E t \in Tasks :
        /\ tasks[t].result.kind = "error"
        /\ ~AcceptIncludesHtml(tasks[t].req)

\* C8 as stated: a GET for an HTML document that the worker for CACHE_NAME
\* intercepts never ends with a failure for the page (a rejected respondWith
\* promise, or one fulfilled with no response).
C8_HtmlNeverFails ==
    \A t \in Tasks :
        /\ tasks[t].pc = "done"
        /\ tasks[t].ver = CACHE_NAME
        /\ tasks[t].req.method = "GET"
        /\ AcceptIncludesHtml(tasks[t].req)
        /\ tasks[t].result.kind # "passthrough"
        => tasks[t].result.kind = "response"

\* C9: the promise the install listener hands to event.waitUntil is never
\* rejected, whatever caches.open and cache.addAll settle with: when the
\* chain has run it is fulfilled, and the worker never becomes redundant.
C9_InstallNeverRejects ==
    /\ inst.promise # "rejected"
    /\ inst.pc = "done" => inst.promise = "fulfilled"
    /\ phase # "redundant"

\* install succeeded although the bucket could not be opened
C9_Witness ==
    /\ phase = "installed"
    /\ ~HasBucket(caches, CACHE_NAME)

\* C10 as stated: when some manifest fetch fails during install, every
\* manifest URL whose fetch succeeded is in the bucket CACHE_NAME once
\* cache.addAll has settled.
C10_PerItemBestEffort ==
    [][inst.pc = "fetched" /\ inst'.pc = "done" /\ inst.failed # {} =>
         \A i \in (DOMAIN urlsToCache) \ inst.failed :
             Stored(caches', CACHE_NAME, urlsToCache[i])]_vars

\* C11 as stated: when every manifest fetch of install succeeds, the
\* cross-origin ones with opaque responses, every manifest URL has a stored
\* response in the bucket CACHE_NAME once cache.addAll has settled.
C11_ManifestStored ==
    [][inst.pc = "fetched" /\ inst'.pc = "done" /\ inst.failed = {} =>
         \A i \in DOMAIN urlsToCache :
             Stored(caches', CACHE_NAME, urlsToCache[i])]_vars

\* the keys of the bucket with this name
KeysOf(cs, name) ==
    IF HasBucket(cs, name) THEN DOMAIN cs[IndexOf(cs, name)].entries ELSE {}

ManifestUrls == {urlsToCache[i] : i \in DOMAIN urlsToCache}

\* C12 as stated: when install runs a second time for the same version and
\* all its fetches succeed, its promise is fulfilled and cache.addAll leaves
\* the bucket CACHE_NAME with the keys it had, one per manifest URL.
C12_InstallIdempotent ==
    [][inst.pc = "fetched" /\ inst'.pc = "done" /\ inst.failed = {} =>
         /\ inst'.promise = "fulfilled"
         /\ KeysOf(caches', CACHE_NAME) = KeysOf(caches, CACHE_NAME)
         /\ KeysOf(caches', CACHE_NAME) = ManifestUrls]_vars

\* C13 as stated: a request whose URL matches the external maps link is
\* never served from the cache and never written to it: no bucket ever holds
\* an entry for such a URL, and a fetch event for it passes through with no
\* cache lookup.
C13_MapsNeverStored ==
    /\ \A i \in DOMAIN caches :
          \A k \in DOMAIN caches[i].entries : ~UrlIncludesMaps(k)
    /\ \A t \in Tasks :
          tasks[t].pc # "idle" /\ UrlIncludesMaps(tasks[t].req.url) =>
             /\ tasks[t].result.kind = "passthrough"
             /\ tasks[t].lookups = 0

\* C14: every entry of every bucket is keyed by a GET request, whatever
\* install, fetch and CACHE_URLS events have run.
C14_OnlyGetStored ==
    \A i \in DOMAIN caches :
        \A k \in DOMAIN caches[i].methods : caches[i].methods[k] = "GET"

\* the bucket CACHE_NAME holds an entry written by the fetch listener and
\* one written by a CACHE_URLS message
C14_Witness ==
    /\ \E t \in Tasks :
          /\ tasks[t].wr = "written"
          /\ Stored(caches, CACHE_NAME, tasks[t].req.url)
    /\ \E m \in 1..MaxMessages :
          /\ msgs[m].promise = "fulfilled"
          /\ \A i \in DOMAIN msgs[m].data.urls :
                Stored(caches, CACHE_NAME, msgs[m].data.urls[i])

\* C15: a GET_VERSION message posted with a reply port gets exactly one
\* reply on that port, carrying CACHE_NAME as its version; a message of any
\* other type, or without data, gets no reply.
C15_VersionReply ==
    \A m \in 1..MaxMessages :
        msgs[m].pc # "idle" =>
            IF msgs[m].data.type = "GET_VERSION" /\ msgs[m].data.port
            THEN /\ Len(msgs[m].replies) = 1
                 /\ msgs[m].replies[1].version = CACHE_NAME
            ELSE Len(msgs[m].replies) = 0

\* a GET_VERSION message has been answered
C15_Witness ==
    \E m \in 1..MaxMessages :
        /\ msgs[m].pc = "done"
        /\ msgs[m].data.type = "GET_VERSION"
        /\ msgs[m].replies = << [version |-> CACHE_NAME] >>

\* C16 as stated: when adding the URLs of a CACHE_URLS message fails, the
\* promise handed to event.waitUntil for that message is not rejected, and
\* the worker stays active.
C16_MessageFailureSwallowed ==
    [][\A m \in 1..MaxMessages :
          msgs[m].pc = "addAll" /\ msgs'[m].pc = "done" =>
             /\ msgs'[m].promise # "rejected"
             /\ phase' = "activated"]_vars

\* the worker with MaxMsgFetches fetch events, for the behaviours with
\* fairness
NextLive ==
    \/ Install
    \/ InstallOpen
    \/ InstallFetchAll
    \/ InstallAddAll
    \/ InstallFinish
    \/ Activate
    \/ ActivateKeys
    \/ \E n \in act.pending : ActivateDelete(n)
    \/ ClientsClaim
    \/ ActivateFinish
    \/ \E t \in 1..MaxMsgFetches : \E req \in PageRequests : FetchEvent(t, req)
    \/ \E t \in 1..MaxMsgFetches : FetchMatch(t)
    \/ \E t \in 1..MaxMsgFetches : FetchResponse(t)
    \/ \E t \in 1..MaxMsgFetches : FetchError(t)
    \/ \E t \in 1..MaxMsgFetches : FetchFallback(t)
    \/ \E t \in 1..MaxMsgFetches : LazyOpen(t)
    \/ \E t \in 1..MaxMsgFetches : LazyPut(t)

\* every promise of the activate listener settles, and the host ends
\* activation once they have
SpecLive ==
    /\ Init /\ [][NextLive]_vars
    /\ \A n \in {OldVersion, ForeignBucket} : WF_vars(ActivateDelete(n))
    /\ WF_vars(ClientsClaim)
    /\ WF_vars(ActivateFinish)

\* C17: a caches.delete that fails during activation affects only its own
\* bucket: the step leaves storage as it was (the bucket CACHE_NAME
\* included) and leaves every other deletion in flight, and from then on
\* every other deletion settles, the worker claims the pages and reaches
\* the activated state.
C17_FailedDeleteIsLocal ==
    /\ [][act'.failed # act.failed =>
             /\ caches' = caches
             /\ act'.pending = act.pending \ act'.failed
             /\ act'.claim = act.claim]_vars
    /\ (act.failed # {}) ~>
          (act.pending = {} /\ phase = "activated" /\ controller = CACHE_NAME)

\* one deletion failed, the other stale bucket is gone, the bucket
\* CACHE_NAME is in storage and the worker is active and in control
C17_Witness ==
    /\ act.failed = {ForeignBucket}
    /\ act.names = {ForeignBucket, OldVersion, CACHE_NAME}
    /\ Names(caches) = {ForeignBucket, CACHE_NAME}
    /\ phase = "activated"
    /\ controller = CACHE_NAME

\* C18 as stated: self.clients.claim() takes effect only after every stale
\* bucket has been deleted: no bucket other than CACHE_NAME is in storage at
\* the moment the pages are claimed.
C18_ClaimAfterPrune ==
    [][act.claim = "pending" /\ act'.claim = "fulfilled" =>
         Names(caches) \subseteq {CACHE_NAME}]_vars

\* the key a lookup of the fetch listener asks for: event.request in the
\* primary path, '/index.html' in the fallback
LookupUrl(t) == IF tasks[t].pc = "match" THEN tasks[t].req.url ELSE IndexHtml

\* C19 as stated: a response the worker for CACHE_NAME serves from the cache,
\* by the primary lookup or by the fallback lookup, is the entry of the
\* bucket CACHE_NAME; an entry held only by another bucket is never served.
C19_ServedFromCurrentBucket ==
    [][\A t \in Tasks :
          /\ tasks[t].ver = CACHE_NAME
          /\ tasks[t].pc \in {"match", "fallback"}
          /\ tasks'[t].pc = "done"
          /\ tasks'[t].result.kind = "response"
          => /\ Stored(caches, CACHE_NAME, LookupUrl(t))
             /\ tasks'[t].result.resp =
                   caches[IndexOf(caches, CACHE_NAME)].entries[LookupUrl(t)]]_vars

\* the step is one of message event m
MessageStep(m) == msgs'[m] # msgs[m]

\* the step leaves every bucket but CACHE_NAME as it was and creates no
\* bucket but CACHE_NAME
OtherBucketsUnchanged ==
    /\ Names(caches') \ {CACHE_NAME} = Names(caches) \ {CACHE_NAME}
    /\ \A i \in DOMAIN caches :
          caches[i].name # CACHE_NAME => caches'[i] = caches[i]

\* the handling of message m ends with this step
MessageEnds(m) == msgs[m].pc # "done" /\ msgs'[m].pc = "done"

\* C20 as stated: when the handling of a CACHE_URLS message ends, every URL
\* of its urls list has an entry in the bucket CACHE_NAME and no other
\* bucket has changed; a SKIP_WAITING or GET_VERSION message leaves cache
\* storage unchanged.
C20_CacheUrlsAddsEach ==
    [][\A m \in 1..MaxMessages :
          MessageStep(m) =>
             /\ OtherBucketsUnchanged
             /\ msgs'[m].data.type \in {"SKIP_WAITING", "GET_VERSION"} =>
                   caches' = caches
             /\ msgs'[m].data.type = "CACHE_URLS" /\ MessageEnds(m) =>
                   \A i \in DOMAIN msgs[m].data.urls :
                       Stored(caches', CACHE_NAME, msgs[m].data.urls[i])]_vars

\* C20 amended: a CACHE_URLS message whose caches.open and fetches all
\* succeed adds an entry for each URL of its urls list to the bucket
\* CACHE_NAME and nothing else; when the open or one fetch fails, its
\* handling adds no entry at all.  No step of a message changes another
\* bucket, and a SKIP_WAITING or GET_VERSION message leaves cache storage
\* unchanged.
C20_CacheUrlsAllOrNothing ==
    [][\A m \in 1..MaxMessages :
          MessageStep(m) =>
             /\ OtherBucketsUnchanged
             /\ msgs'[m].data.type \in {"SKIP_WAITING", "GET_VERSION"} =>
                   caches' = caches
             /\ msgs'[m].data.type = "CACHE_URLS" /\ MessageEnds(m) =>
                   IF msgs'[m].promise = "fulfilled"
                   THEN KeysOf(caches', CACHE_NAME) =
                           KeysOf(caches, CACHE_NAME) \cup
                           {msgs[m].data.urls[i] : i \in DOMAIN msgs[m].data.urls}
                   ELSE KeysOf(caches', CACHE_NAME) = KeysOf(caches, CACHE_NAME)]_vars

\* a CACHE_URLS message has stored its two URLs in the bucket CACHE_NAME
\* while the bucket of the superseded version is still in storage
C20_Witness ==
    /\ \E m \in 1..MaxMessages :
          /\ msgs[m].data.type = "CACHE_URLS"
          /\ msgs[m].promise = "fulfilled"
    /\ Stored(caches, CACHE_NAME, IndexHtml)
    /\ Stored(caches, CACHE_NAME, MapsLink)
    /\ HasBucket(caches, OldVersion)

\* C21 as stated: once activation of the worker for CACHE_NAME has completed
\* and its deletions have all succeeded, no bucket with another name is in
\* storage in any later state, whatever fetch events of the superseded
\* worker are still in flight.
C21_NoStaleBucketLater ==
    phase = "activated" /\ act.pending = {} /\ act.failed = {} =>
       Names(caches) \subseteq {CACHE_NAME}

\* two fetch events of the worker for CACHE_NAME for the same same-origin
\* GET request, the second dispatched before the first had returned, that
\* both missed the cache and both got a response from the network
ConcurrentMisses(t1, t2) ==
    /\ t1 < t2
    /\ tasks[t1].ver = CACHE_NAME /\ tasks[t2].ver = CACHE_NAME
    /\ tasks[t1].req = tasks[t2].req
    /\ tasks[t1].req.method = "GET"
    /\ UrlStartsWithOrigin(tasks[t1].req.url)
    /\ t1 \notin tasks[t2].after
    /\ \A t \in {t1, t2} :
          tasks[t].pc = "done" /\ tasks[t].netCalls = 1 /\ tasks[t].net # NoResp

\* no lazy write for the URL is in flight
WritesSettled(url) ==
    \A t \in Tasks : tasks[t].req.url = url => tasks[t].wr \notin {"open", "put"}

\* the fetch events of the worker for CACHE_NAME whose lazy write for the
\* URL succeeded
Writers(url) ==
    {t \in Tasks : /\ tasks[t].ver = CACHE_NAME
                   /\ tasks[t].req.url = url
                   /\ tasks[t].wr = "written"}

EntryOf(cs, name, url) == cs[IndexOf(cs, name)].entries[url]

\* C22 as stated: of two concurrent fetch events for the same same-origin
\* GET request that both miss the cache, each is answered with the network
\* response of its own fetch, and once the lazy writes have settled the
\* bucket CACHE_NAME holds one entry for the request, equal to one of the
\* two fetched responses.
C22_ConcurrentMissesStoreOne ==
    \A t1 \in Tasks : \A t2 \in Tasks :
        ConcurrentMisses(t1, t2) =>
           /\ \A t \in {t1, t2} :
                 /\ tasks[t].result = Result("response", tasks[t].net)
                 /\ tasks[t].net.gen = t
           /\ WritesSettled(tasks[t1].req.url) =>
                 /\ Stored(caches, CACHE_NAME, tasks[t1].req.url)
                 /\ EntryOf(caches, CACHE_NAME, tasks[t1].req.url)
                       \in {tasks[t1].net, tasks[t2].net}

\* C22 amended: each of the concurrent fetch events is answered with the
\* network response of its own fetch and issues a lazy write when that
\* response has status 200 and type "basic"; once the lazy writes for the
\* request have settled, the bucket CACHE_NAME holds for it the response of
\* one of the events whose write succeeded, and no entry when no write
\* succeeded.
C22_ConcurrentMissesStoreWritten ==
    \A t1 \in Tasks : \A t2 \in Tasks :
        ConcurrentMisses(t1, t2) =>
           /\ \A t \in {t1, t2} :
                 /\ tasks[t].result = Result("response", tasks[t].net)
                 /\ tasks[t].net.gen = t
                 /\ tasks[t].net.status = 200 /\ tasks[t].net.type = "basic"
                       => tasks[t].wr # "none"
           /\ WritesSettled(tasks[t1].req.url) =>
                 IF Writers(tasks[t1].req.url) = {}
                 THEN ~Stored(caches, CACHE_NAME, tasks[t1].req.url)
                 ELSE /\ Stored(caches, CACHE_NAME, tasks[t1].req.url)
                      /\ EntryOf(caches, CACHE_NAME, tasks[t1].req.url)
                            \in {tasks[t].net : t \in Writers(tasks[t1].req.url)}

\* both concurrent events wrote their response, and the write of the first
\* one settled last
C22_Witness ==
    /\ ConcurrentMisses(1, 2)
    /\ Writers(tasks[1].req.url) = {1, 2}
    /\ EntryOf(caches, CACHE_NAME, tasks[1].req.url) = tasks[1].net

====
